---- MODULE Spec2Model ----
(***************************************************************************)
(* Two release-pipeline scripts of vr_game_prototype:                      *)
(*                                                                         *)
(*   materials/format_directories.py  the Material Renamer                 *)
(*   stage.py                         the Build Stager                     *)
(*                                                                         *)
(* Each script is a sequential program over the file system.  The module   *)
(* holds one state machine per script (SpecRenamer, SpecStager); the       *)
(* variables of the script that is not running keep their idle values.     *)
(*                                                                         *)
(* File names are sequences of tokens (<<"wood", "Base_Color", ".png">>    *)
(* is wood_Base_Color.png): re.search with re.IGNORECASE is a substring    *)
(* search, modelled at token granularity after case folding.  Paths are    *)
(* sequences of names.  os.rename follows POSIX rename(2).                 *)
(***************************************************************************)
EXTENDS Naturals, Sequences, FiniteSets

VARIABLES
    fs,            \* renamer: path -> [kind, content], the tree under "."
    fs0,           \* renamer: the tree as it was when the current run started
    pc,            \* renamer: "idle", "outer", "inner", "done", "error"
    outerPending,  \* renamer: entries of "." the outer scandir has yet to yield
    cur,           \* renamer: entry.path of the outer loop
    innerPending,  \* renamer: entries the inner scandir has yet to yield
    moved,         \* renamer: the "Moved %s to %s" lines printed by this run
    failed,        \* renamer: the rename that raised, or <<>>
    run,           \* renamer: number of the current run
    disk,          \* stager: path -> content, the working directory
    archive,       \* stager: hot_chickens.7z, [state, entries]
    archive0,      \* stager: hot_chickens.7z when the current run started
    spc,           \* stager: the step about to execute, or "done", "aborted",
                   \*         "edited" (done, assets changed since), "idle"
    di,            \* stager: index of d in the loop over dirs
    steps,         \* stager: the steps this run has completed, in order
    failedAt,      \* stager: the step whose call failed in this run, or "none"
    disk0,         \* stager: the working directory when the current run started
    edits,         \* stager: changes made to the asset directories after runs
    srun           \* stager: number of the current run

rvars == <<fs, fs0, pc, outerPending, cur, innerPending, moved, failed, run>>
svars == <<disk, archive, archive0, spc, di, steps, failedAt, disk0, edits, srun>>
vars == <<fs, fs0, pc, outerPending, cur, innerPending, moved, failed, run,
          disk, archive, archive0, spc, di, steps, failedAt, disk0, edits, srun>>

\* Bounds of the model.
MaxFiles == 2
MaxRuns == 2
MaxStagerRuns == 2
MaxEdits == 1

(***************************************************************************)
(*                         MATERIAL RENAMER                                *)
(***************************************************************************)

\* r_expressions: each pattern is the sequence of its "|" alternatives.
r_expressions == << <<"albedo", "Base_Color">>, <<"normal">>, <<"roughness">> >>

out_names == <<"albedo", "normal", "roughness">>

\* Case folding of re.IGNORECASE, on the tokens names are made of.
Lower(t) ==
    CASE t = "Base_Color" -> "base_color"
      [] t = "Normal"     -> "normal"
      [] t = "ROUGHNESS"  -> "roughness"
      [] t = "Albedo"     -> "albedo"
      [] OTHER            -> t

\* re.search(pattern, name, re.IGNORECASE): some alternative occurs in the name.
Search(pattern, name) ==
    \E a \in 1..Len(pattern), j \in 1..Len(name) :
        Lower(pattern[a]) = Lower(name[j])

\* for i in range(0, len(r_expressions)): if re.search(...): ...; break
\* The index of the pattern the loop stops at, 0 when it runs off the table.
RECURSIVE MatchFrom(_, _)
MatchFrom(i, name) ==
    IF i > Len(r_expressions) THEN 0
    ELSE IF Search(r_expressions[i], name) THEN i
    ELSE MatchFrom(i + 1, name)

\* A loop that keeps the last hit instead of breaking at the first one.
RECURSIVE LastMatchFrom(_, _)
LastMatchFrom(i, name) ==
    IF i = 0 THEN 0
    ELSE IF Search(r_expressions[i], name) THEN i
    ELSE LastMatchFrom(i - 1, name)

\* A loop that falls back to the first table row when nothing matches.
DefaultMatch(name) ==
    IF MatchFrom(1, name) = 0 THEN 1 ELSE MatchFrom(1, name)

LastMatch(name) == LastMatchFrom(Len(r_expressions), name)

FirstMatch(name) == MatchFrom(1, name)

\* An output name that itself carries another role's marker.
OutFileClash(i) == IF i = 2 THEN <<"albedo", out_names[i], ".png">>
                   ELSE <<out_names[i], ".png">>

\* "%s.png" % out_names[i]
OutFile(i) == <<out_names[i], ".png">>

\* new_path = "%s/%s.png" % (entry.path, out_names[i])
NewPath(dir, i) == Append(dir, OutFile(i))

\* The names files and directories of the model carry.
Names == {
    <<"albedo", ".png">>,
    <<"normal", ".png">>,
    <<"roughness", ".png">>,
    <<"wood", "Base_Color", ".png">>,
    <<"Normal", "albedo">>,
    <<"ROUGHNESS", "normal">>,
    <<"wood", ".jpg">> }

\* The names the entries of "." carry.
RootNames == { <<"brick">>, <<"metal", "albedo">> }

Kinds == {"file", "dir"}

\* entry.is_dir()
IsDir(f, path) == path \in DOMAIN f /\ f[path].kind = "dir"

\* os.scandir(path): the names of the entries directly inside path ("." is <<>>).
ScanDir(f, path) ==
    { p[Len(p)] : p \in { q \in DOMAIN f : /\ Len(q) = Len(path) + 1
                                           /\ SubSeq(q, 1, Len(path)) = path } }

\* The tree after the entry at src has been moved to dst, replacing what was there.
MoveEntry(f, src, dst) ==
    [p \in (DOMAIN f \ {src}) \cup {dst} |-> IF p = dst THEN f[src] ELSE f[p]]

\* A rename that refuses to replace an existing destination.
OsRenameNoReplace(f, src, dst) ==
    IF src \notin DOMAIN f THEN { [ok |-> FALSE, fs |-> f] }
    ELSE IF src = dst THEN { [ok |-> TRUE, fs |-> f] }
    ELSE IF dst \notin DOMAIN f THEN { [ok |-> TRUE, fs |-> MoveEntry(f, src, dst)] }
    ELSE { [ok |-> FALSE, fs |-> f] }

\* os.rename(src, dst) per rename(2): the set of results the call can have.
\*   same path: success, nothing changes;  dst absent: src moves;
\*   file onto file: dst is replaced;      file onto directory: EISDIR;
\*   directory onto file: ENOTDIR;
\*   directory onto directory: replaced when dst is empty, ENOTEMPTY when not
\*   (what a directory holds lies below the depth of the model: both happen).
OsRename(f, src, dst) ==
    IF src \notin DOMAIN f THEN { [ok |-> FALSE, fs |-> f] }
    ELSE IF src = dst THEN { [ok |-> TRUE, fs |-> f] }
    ELSE IF dst \notin DOMAIN f THEN { [ok |-> TRUE, fs |-> MoveEntry(f, src, dst)] }
    ELSE IF f[src].kind = "file" /\ f[dst].kind = "file"
         THEN { [ok |-> TRUE, fs |-> MoveEntry(f, src, dst)] }
    ELSE IF f[src].kind = "dir" /\ f[dst].kind = "dir"
         THEN { [ok |-> TRUE, fs |-> MoveEntry(f, src, dst)], [ok |-> FALSE, fs |-> f] }
    ELSE { [ok |-> FALSE, fs |-> f] }

\* Subsets of S with at most k elements.
RECURSIVE SubsetsUpTo(_, _)
SubsetsUpTo(S, k) ==
    IF k = 0 \/ S = {} THEN { {} }
    ELSE LET x == CHOOSE y \in S : TRUE
             rest == S \ {x}
         IN  SubsetsUpTo(rest, k) \cup { T \cup {x} : T \in SubsetsUpTo(rest, k - 1) }

\* The trees a run can start on: every entry of "." is a file or a directory,
\* the directories hold at most MaxFiles entries between them, and the content
\* of an entry is named after the path it starts at.
Trees ==
    UNION { UNION { { [p \in { <<r>> : r \in DOMAIN top } \cup children |->
                         [kind |-> IF Len(p) = 1 THEN top[p[1]] ELSE kd[p],
                          content |-> p]] : kd \in [children -> Kinds] }
                    : children \in SubsetsUpTo(
                          { <<r, n>> : r \in { x \in DOMAIN top : top[x] = "dir" },
                                       n \in Names }, MaxFiles) }
            : top \in UNION { [R -> Kinds] : R \in SUBSET RootNames } }

SIdle ==
    /\ disk = <<>>
    /\ archive = [state |-> "absent", entries |-> <<>>]
    /\ archive0 = [state |-> "absent", entries |-> <<>>]
    /\ spc = "idle"
    /\ di = 0
    /\ steps = <<>>
    /\ failedAt = "none"
    /\ disk0 = <<>>
    /\ edits = 0
    /\ srun = 0

RInit ==
    /\ fs \in Trees
    /\ fs0 = fs
    /\ pc = "outer"
    /\ outerPending = ScanDir(fs, <<>>)
    /\ cur = <<>>
    /\ innerPending = {}
    /\ moved = <<>>
    /\ failed = <<>>
    /\ run = 1
    /\ SIdle

\* for entry in os.scandir("."): if entry.is_dir(): for e in os.scandir(entry.path)
EnterDir(r) ==
    /\ pc = "outer"
    /\ r \in outerPending
    /\ IsDir(fs, <<r>>)
    /\ outerPending' = outerPending \ {r}
    /\ cur' = <<r>>
    /\ innerPending' = ScanDir(fs, <<r>>)
    /\ pc' = "inner"
    /\ UNCHANGED <<fs, fs0, moved, failed, run>>
    /\ UNCHANGED svars

\* if entry.is_dir(): false, the entry is passed over.
SkipEntry(r) ==
    /\ pc = "outer"
    /\ r \in outerPending
    /\ ~IsDir(fs, <<r>>)
    /\ outerPending' = outerPending \ {r}
    /\ UNCHANGED <<fs, fs0, pc, cur, innerPending, moved, failed, run>>
    /\ UNCHANGED svars

\* The inner loop runs off the pattern table: e matches nothing.
NoMatch(e) ==
    /\ pc = "inner"
    /\ e \in innerPending
    /\ FirstMatch(e) = 0
    /\ innerPending' = innerPending \ {e}
    /\ UNCHANGED <<fs, fs0, pc, outerPending, cur, moved, failed, run>>
    /\ UNCHANGED svars

\* os.rename(e.path, new_path) succeeds; print; break.  Whether the directory
\* stream later yields the entry the rename created or replaced is unspecified
\* (readdir after a change of the directory): both are allowed.
RenameOk(e) ==
    /\ pc = "inner"
    /\ e \in innerPending
    /\ FirstMatch(e) # 0
    /\ LET src == Append(cur, e)
           dst == NewPath(cur, FirstMatch(e))
       IN  \E out \in OsRename(fs, src, dst) :
             /\ out.ok
             /\ fs' = out.fs
             /\ moved' = Append(moved, [src |-> src, dst |-> dst])
             /\ \/ innerPending' = innerPending \ {e, dst[Len(dst)]}
                \/ /\ dst # src
                   /\ innerPending' = (innerPending \ {e}) \cup {dst[Len(dst)]}
    /\ UNCHANGED <<fs0, pc, outerPending, cur, failed, run>>
    /\ UNCHANGED svars

\* os.rename raises: the exception is not caught and ends the run.
RenameFail(e) ==
    /\ pc = "inner"
    /\ e \in innerPending
    /\ FirstMatch(e) # 0
    /\ LET src == Append(cur, e)
           dst == NewPath(cur, FirstMatch(e))
       IN  \E out \in OsRename(fs, src, dst) :
             /\ ~out.ok
             /\ failed' = [src |-> src, dst |-> dst]
    /\ pc' = "error"
    /\ UNCHANGED <<fs, fs0, outerPending, cur, innerPending, moved, run>>
    /\ UNCHANGED svars

\* The inner scandir is exhausted: back to the outer loop.
LeaveDir ==
    /\ pc = "inner"
    /\ innerPending = {}
    /\ pc' = "outer"
    /\ UNCHANGED <<fs, fs0, outerPending, cur, innerPending, moved, failed, run>>
    /\ UNCHANGED svars

\* The outer scandir is exhausted: the script ends.
Finish ==
    /\ pc = "outer"
    /\ outerPending = {}
    /\ pc' = "done"
    /\ UNCHANGED <<fs, fs0, outerPending, cur, innerPending, moved, failed, run>>
    /\ UNCHANGED svars

\* The script is started again on the tree the completed run left.
Rerun ==
    /\ pc = "done"
    /\ run < MaxRuns
    /\ run' = run + 1
    /\ fs0' = fs
    /\ pc' = "outer"
    /\ outerPending' = ScanDir(fs, <<>>)
    /\ cur' = <<>>
    /\ innerPending' = {}
    /\ moved' = <<>>
    /\ failed' = <<>>
    /\ UNCHANGED fs
    /\ UNCHANGED svars

RNext ==
    \/ \E r \in outerPending : EnterDir(r)
    \/ \E r \in outerPending : SkipEntry(r)
    \/ \E e \in innerPending : NoMatch(e)
    \/ \E e \in innerPending : RenameOk(e)
    \/ \E e \in innerPending : RenameFail(e)
    \/ LeaveDir
    \/ Finish
    \/ Rerun

SpecRenamer == RInit /\ [][RNext]_vars

(***************************************************************************)
(*                            BUILD STAGER                                 *)
(*                                                                         *)
(* The working directory is a map from paths to contents.  A directory     *)
(* holds DirMark; a file holds <<"v", n>> (written by the n-th change of   *)
(* the assets), <<"exe", n>> (linked by the n-th run's build) or           *)
(* Truncated (a copy cut short by an I/O error).                           *)
(***************************************************************************)

staging_dir == "dist"

dirs == <<"materials", "models", "shaders", "skyboxes">>

\* "target/release/hot_chickens.exe"
ExePath == <<"target", "release", "hot_chickens.exe">>

ExeName == "hot_chickens.exe"

DirMark == <<"dir", 0>>

Truncated == <<"truncated", 0>>

NoArchive == [state |-> "absent", entries |-> <<>>]

\* The paths at or below the top-level entry d.
Tree(f, d) == { p \in DOMAIN f : p[1] = d }

\* os.path.exists(staging_dir)
StagingExists(f) == <<staging_dir>> \in DOMAIN f

\* The map f without the paths in S.
Without(f, S) == [p \in DOMAIN f \ S |-> f[p]]

\* The map f with the entries of g added (g wins).
Overlay(f, g) == [p \in DOMAIN f \cup DOMAIN g |-> IF p \in DOMAIN g THEN g[p] ELSE f[p]]

\* S holds, with each of its paths, the directories above it (down to depth k).
PrefixClosed(S, k) == \A p \in S : Len(p) > k => SubSeq(p, 1, Len(p) - 1) \in S

\* "%s/%s" % (staging_dir, d), and the same for every path below d.
Into(p) == <<staging_dir>> \o p

\* shutil.copytree(d, "dist/d") when it succeeds: every path of the tree at d,
\* with its content, under dist.
CopiedTree(f, d) == [q \in { Into(p) : p \in Tree(f, d) } |-> f[Tail(q)]]

\* What a copytree that raises part-way can leave under dist: a part of the
\* tree, a file of it possibly cut short (copytree neither removes what it
\* has written nor stops at the first file it cannot copy).
PartialTrees(f, d) ==
    { [q \in { Into(p) : p \in S } |->
          IF Tail(q) \in T THEN Truncated ELSE f[Tail(q)]] :
      S \in { X \in SUBSET Tree(f, d) : PrefixClosed(X, 1) },
      T \in SUBSET { p \in Tree(f, d) : f[p] # DirMark } }

\* The name an entry gets relative to the staging root.
ArcNameRelative(p) == Tail(p)

\* SevenZipFile.writeall(path) without arcname: an entry is named by the path
\* it was read from, as given ("dist", "dist/materials", "dist/materials/a").
ArcName(p) == p

\* archive.writeall(staging_dir): the staging directory and all below it.
WriteAll(f) ==
    [n \in { ArcName(p) : p \in Tree(f, staging_dir) } |->
        f[CHOOSE p \in Tree(f, staging_dir) : ArcName(p) = n]]

\* The archive a write that raises part-way leaves: the file was created (or
\* truncated) by the open and is incomplete; which entries it holds is not
\* recorded.
PartialArchive == [state |-> "partial", entries |-> <<>>]

\* What an rmtree that raises can leave of the staging directory: the directory
\* itself with all it held, or with nothing of it (the two extremes of "what
\* was removed before the error stays removed").
RmTreeFailures(f) ==
    { Without(f, S) : S \in { {}, Tree(f, staging_dir) \ {<<staging_dir>>} } }

\* The asset trees a directory name can stand for: absent, empty, one file.
AssetOptions(d, n) ==
    { <<>>,
      [p \in {<<d>>} |-> DirMark],
      [p \in {<<d>>, <<d, "a">>} |-> IF p = <<d>> THEN DirMark ELSE <<"v", n>>] }

\* What a run can find at dist: nothing, an empty directory, a directory
\* holding a file of an earlier staging.
StaleOptions ==
    { <<>>,
      [p \in {<<staging_dir>>} |-> DirMark],
      [p \in {<<staging_dir>>, <<staging_dir, "old">>} |->
          IF p = <<staging_dir>> THEN DirMark ELSE <<"v", 0>>] }

\* What a run can find at hot_chickens.7z: nothing, or an earlier archive.
OldArchives ==
    { NoArchive,
      [state |-> "complete",
       entries |-> [p \in {<<staging_dir>>, <<staging_dir, "old">>} |->
                       IF p = <<staging_dir>> THEN DirMark ELSE <<"v", 0>>]] }

ExeOptions == { <<>>, [p \in {ExePath} |-> <<"exe", 0>>] }

RIdle ==
    /\ fs = <<>>
    /\ fs0 = <<>>
    /\ pc = "idle"
    /\ outerPending = {}
    /\ cur = <<>>
    /\ innerPending = {}
    /\ moved = <<>>
    /\ failed = <<>>
    /\ run = 0

\* start_time = time.time()
SInit ==
    /\ \E a1 \in AssetOptions(dirs[1], 0), a2 \in AssetOptions(dirs[2], 0),
          a3 \in AssetOptions(dirs[3], 0), a4 \in AssetOptions(dirs[4], 0),
          x \in ExeOptions, st \in StaleOptions :
          disk = Overlay(Overlay(Overlay(a1, a2), Overlay(a3, a4)), Overlay(x, st))
    /\ disk0 = disk
    /\ archive \in OldArchives
    /\ archive0 = archive
    /\ spc = "rmtree"
    /\ di = 1
    /\ steps = <<>>
    /\ failedAt = "none"
    /\ edits = 0
    /\ srun = 1
    /\ RIdle

\* The uncaught exception of a failing step ends the process.
Abort(step) ==
    /\ spc' = "aborted"
    /\ failedAt' = step
    /\ UNCHANGED <<di, steps, disk0, archive0, edits, srun>>

\* The step has completed; the next one is `next`.
Advance(step, next) ==
    /\ spc' = next
    /\ steps' = Append(steps, step)
    /\ UNCHANGED <<failedAt, disk0, archive0, edits, srun>>

\* if os.path.exists(staging_dir): false.
S_NoStale ==
    /\ spc = "rmtree"
    /\ ~StagingExists(disk)
    /\ Advance("rmtree", "build")
    /\ UNCHANGED <<disk, archive, di>>
    /\ UNCHANGED rvars

\* if os.path.exists(staging_dir): shutil.rmtree(staging_dir)
S_RmStale ==
    /\ spc = "rmtree"
    /\ StagingExists(disk)
    /\ disk' = Without(disk, Tree(disk, staging_dir))
    /\ Advance("rmtree", "build")
    /\ UNCHANGED <<archive, di>>
    /\ UNCHANGED rvars

\* shutil.rmtree(staging_dir) raises: what it had removed stays removed.
S_RmStaleFail ==
    /\ spc = "rmtree"
    /\ StagingExists(disk)
    /\ disk' \in RmTreeFailures(disk)
    /\ Abort("rmtree")
    /\ UNCHANGED archive
    /\ UNCHANGED rvars

\* cargo build --release exits with 0.  It links target/release/hot_chickens.exe
\* anew, or leaves the target directory as it was (nothing to rebuild, or a
\* binary of another name).
S_BuildOk ==
    /\ spc = "build"
    /\ \/ disk' = Overlay(disk, [p \in {ExePath} |-> <<"exe", srun>>])
       \/ disk' = disk
    /\ Advance("build", "mkdir")
    /\ UNCHANGED <<archive, di>>
    /\ UNCHANGED rvars

\* subprocess.run without check=True: the exit status is dropped.
S_BuildFailIgnored ==
    /\ spc = "build"
    /\ spc' = "mkdir"
    /\ failedAt' = "build"
    /\ steps' = Append(steps, "build")
    /\ UNCHANGED <<disk, archive, di, disk0, archive0, edits, srun>>
    /\ UNCHANGED rvars

\* subprocess.run(..., check=True): a non-zero exit raises CalledProcessError.
S_BuildFail ==
    /\ spc = "build"
    /\ Abort("build")
    /\ UNCHANGED <<disk, archive>>
    /\ UNCHANGED rvars

\* os.mkdir(staging_dir)
S_Mkdir ==
    /\ spc = "mkdir"
    /\ ~StagingExists(disk)
    /\ disk' = Overlay(disk, [p \in {<<staging_dir>>} |-> DirMark])
    /\ Advance("mkdir", "copytree")
    /\ UNCHANGED <<archive, di>>
    /\ UNCHANGED rvars

\* os.mkdir raises (the path exists, or the directory cannot be created).
S_MkdirFail ==
    /\ spc = "mkdir"
    /\ Abort("mkdir")
    /\ UNCHANGED <<disk, archive>>
    /\ UNCHANGED rvars

\* for d in dirs: shutil.copytree(d, "%s/%s" % (staging_dir, d))
S_CopyTree ==
    /\ spc = "copytree"
    /\ <<dirs[di]>> \in DOMAIN disk
    /\ Into(<<dirs[di]>>) \notin DOMAIN disk
    /\ disk' = Overlay(disk, CopiedTree(disk, dirs[di]))
    /\ steps' = Append(steps, "copytree")
    /\ IF di < Len(dirs)
       THEN di' = di + 1 /\ spc' = "copytree"
       ELSE di' = di /\ spc' = "copy"
    /\ UNCHANGED <<archive, failedAt, disk0, archive0, edits, srun>>
    /\ UNCHANGED rvars

\* A failing copytree that is followed by the removal of the staging directory.
S_CopyTreeFailRollback ==
    /\ spc = "copytree"
    /\ disk' = Without(disk, Tree(disk, staging_dir))
    /\ Abort("copytree")
    /\ UNCHANGED archive
    /\ UNCHANGED rvars

\* shutil.copytree raises: the source is missing (nothing is written), or an
\* error interrupts the copy (what was written stays).
S_CopyTreeFail ==
    /\ spc = "copytree"
    /\ IF <<dirs[di]>> \notin DOMAIN disk
       THEN disk' = disk
       ELSE \E part \in PartialTrees(disk, dirs[di]) :
               /\ part # CopiedTree(disk, dirs[di])
               /\ disk' = Overlay(disk, part)
    /\ Abort("copytree")
    /\ UNCHANGED archive
    /\ UNCHANGED rvars

\* shutil.copy("target/release/hot_chickens.exe", "%s/" % staging_dir)
S_CopyExe ==
    /\ spc = "copy"
    /\ ExePath \in DOMAIN disk
    /\ disk' = Overlay(disk, [p \in {<<staging_dir, ExeName>>} |-> disk[ExePath]])
    /\ Advance("copy", "archive")
    /\ UNCHANGED <<archive, di>>
    /\ UNCHANGED rvars

\* shutil.copy raises: the executable is missing (nothing is written), or an
\* error interrupts the copy (nothing, or a file cut short, is left).
S_CopyExeFail ==
    /\ spc = "copy"
    /\ IF ExePath \notin DOMAIN disk
       THEN disk' = disk
       ELSE \/ disk' = disk
            \/ disk' = Overlay(disk, [p \in {<<staging_dir, ExeName>>} |-> Truncated])
    /\ Abort("copy")
    /\ UNCHANGED archive
    /\ UNCHANGED rvars

\* An archive opened for appending: the earlier entries are kept.
S_ArchiveAppend ==
    /\ spc = "archive"
    /\ archive' = [state |-> "complete",
                   entries |-> Overlay(archive.entries, WriteAll(disk))]
    /\ Advance("archive", "cleanup")
    /\ UNCHANGED <<disk, di>>
    /\ UNCHANGED rvars

\* with SevenZipFile("hot_chickens.7z", "w") as archive: archive.writeall(staging_dir)
S_Archive ==
    /\ spc = "archive"
    /\ archive' = [state |-> "complete", entries |-> WriteAll(disk)]
    /\ Advance("archive", "cleanup")
    /\ UNCHANGED <<disk, di>>
    /\ UNCHANGED rvars

\* The archive cannot be opened (it stays as it was), or writing it raises
\* part-way (an incomplete archive is left).
S_ArchiveFail ==
    /\ spc = "archive"
    /\ \/ archive' = archive
       \/ archive' = PartialArchive
    /\ Abort("archive")
    /\ UNCHANGED disk
    /\ UNCHANGED rvars

\* A cleanup that removes nothing.
S_CleanupSkipped ==
    /\ spc = "cleanup"
    /\ Advance("cleanup", "print")
    /\ UNCHANGED <<disk, archive, di>>
    /\ UNCHANGED rvars

\* shutil.rmtree(staging_dir)
S_Cleanup ==
    /\ spc = "cleanup"
    /\ disk' = Without(disk, Tree(disk, staging_dir))
    /\ Advance("cleanup", "print")
    /\ UNCHANGED <<archive, di>>
    /\ UNCHANGED rvars

\* shutil.rmtree(staging_dir) raises: what it had removed stays removed.
S_CleanupFail ==
    /\ spc = "cleanup"
    /\ disk' \in RmTreeFailures(disk)
    /\ Abort("cleanup")
    /\ UNCHANGED archive
    /\ UNCHANGED rvars

\* print("Done! in %.4f seconds" % (time.time() - start_time))
S_Print ==
    /\ spc = "print"
    /\ Advance("print", "done")
    /\ UNCHANGED <<disk, archive, di>>
    /\ UNCHANGED rvars

\* After a completed run an asset directory is removed, emptied or rewritten.
S_Edit ==
    /\ spc = "done"
    /\ edits < MaxEdits
    /\ \E k \in 1..Len(dirs) : \E t \in AssetOptions(dirs[k], edits + 1) :
          disk' = Overlay(Without(disk, Tree(disk, dirs[k])), t)
    /\ edits' = edits + 1
    /\ spc' = "edited"
    /\ UNCHANGED <<archive, archive0, di, steps, failedAt, disk0, srun>>
    /\ UNCHANGED rvars

\* The script is started again after the earlier run has completed.
S_Restart ==
    /\ spc \in {"done", "edited"}
    /\ srun < MaxStagerRuns
    /\ srun' = srun + 1
    /\ spc' = "rmtree"
    /\ di' = 1
    /\ steps' = <<>>
    /\ failedAt' = "none"
    /\ disk0' = disk
    /\ archive0' = archive
    /\ UNCHANGED <<disk, archive, edits>>
    /\ UNCHANGED rvars

SNext ==
    \/ S_NoStale
    \/ S_RmStale
    \/ S_RmStaleFail
    \/ S_BuildOk
    \/ S_BuildFail
    \/ S_Mkdir
    \/ S_MkdirFail
    \/ S_CopyTree
    \/ S_CopyTreeFail
    \/ S_CopyExe
    \/ S_CopyExeFail
    \/ S_Archive
    \/ S_ArchiveFail
    \/ S_Cleanup
    \/ S_CleanupFail
    \/ S_Print
    \/ S_Edit
    \/ S_Restart

SpecStager == SInit /\ [][SNext]_vars

(***************************************************************************)
(*                   PROPERTIES OF THE MATERIAL RENAMER                    *)
(***************************************************************************)

\* The name matches at least one pattern of the table.
Matching(name) == \E i \in 1..Len(r_expressions) : Search(r_expressions[i], name)

\* The first pattern, in table order, that matches the name.
FirstPattern(name) ==
    CHOOSE i \in 1..Len(r_expressions) :
        /\ Search(r_expressions[i], name)
        /\ \A j \in 1..(i - 1) : ~Search(r_expressions[j], name)

\* D/<canonical>.png for the first pattern matching the last component of path.
Canonical(path) ==
    Append(SubSeq(path, 1, Len(path) - 1),
           <<out_names[FirstPattern(path[Len(path)])], ".png">>)

\* The entries of a subdirectory the run started with.
InSubdir(p) == p \in DOMAIN fs0 /\ Len(p) = 2

\* Every entry directly inside the directory of path p was a file at the start.
OnlyFiles(p) ==
    \A q \in DOMAIN fs0 : (Len(q) = 2 /\ q[1] = p[1]) => fs0[q].kind = "file"

\* The renames so far that brought an entry from elsewhere to dst.
MoversTo(dst) == { k \in DOMAIN moved : moved[k].dst = dst /\ moved[k].src # dst }

\* The greatest element of a non-empty set of numbers.
Last(S) == CHOOSE k \in S : \A j \in S : j <= k

\* Some entry of the tree holds this content.
Present(content) == \E p \in DOMAIN fs : fs[p].content = content

\* C1 as stated: after a completed run the content of every matching file of a
\* subdirectory is found at D/<canonical>.png of its first matching pattern
\* (read here for subdirectories that hold only files).
C1_Original ==
    pc = "done" =>
        \A p \in DOMAIN fs0 :
            (InSubdir(p) /\ OnlyFiles(p) /\ Matching(p[2])) =>
                /\ Canonical(p) \in DOMAIN fs
                /\ fs[Canonical(p)].content = fs0[p].content

\* C1, amended: every rename the run performs goes to D/<canonical>.png of the
\* FIRST pattern, in table order, that matches the name, never of a later one;
\* the entry renamed last to a destination is the one found there; and after a
\* completed run every matching entry of a subdirectory was renamed or was
\* replaced by such a rename.
C1_FirstMatchPriority ==
    /\ \A k \in DOMAIN moved :
        /\ Matching(moved[k].src[2])
        /\ moved[k].dst = Canonical(moved[k].src)
        /\ (k = Last(MoversTo(moved[k].dst) \cup {k}) /\ moved[k].src # moved[k].dst) =>
              /\ moved[k].dst \in DOMAIN fs
              /\ fs[moved[k].dst] = fs0[moved[k].src]
    /\ pc = "done" =>
        \A p \in DOMAIN fs0 :
            (InSubdir(p) /\ Matching(p[2])) =>
                \E k \in DOMAIN moved : moved[k].src = p \/ moved[k].dst = p

\* C1's case: a file whose name matches both "normal" and "albedo" has ended
\* as albedo.png, in a completed run.
C1_Witness ==
    /\ pc = "done"
    /\ \E k \in DOMAIN moved :
        /\ moved[k].src[2] = <<"Normal", "albedo">>
        /\ fs0[moved[k].src].kind = "file"
        /\ moved[k].dst[2] = <<"albedo", ".png">>
        /\ fs[moved[k].dst].content = moved[k].src

\* C2 as stated: when two or more files of a subdirectory (one holding only
\* files) were renamed to the same canonical name, the canonical file holds the
\* content of the one processed last in enumeration order.
C2_Original ==
    pc = "done" =>
        \A d \in DOMAIN fs :
            LET ks == { k \in DOMAIN moved : /\ moved[k].dst = d
                                             /\ moved[k].src \in DOMAIN fs0
                                             /\ OnlyFiles(moved[k].src) }
            IN  Cardinality(ks) >= 2 =>
                    fs[d].content = fs0[moved[Last(ks)].src].content

\* C2, amended: the canonical file holds the content of the entry renamed to it
\* last among those that did not already carry the canonical name (a file
\* already named <canonical>.png is renamed onto itself, which changes
\* nothing); what the earlier ones and a replaced canonical file held is gone;
\* and a rename never fails because a file is in the way of a file.
C2_Collision ==
    /\ \A d \in DOMAIN fs :
        LET ks == MoversTo(d)
        IN  ks # {} =>
              /\ fs[d] = fs0[moved[Last(ks)].src]
              /\ \A k \in ks \ {Last(ks)} : ~Present(fs0[moved[k].src].content)
              /\ d \in DOMAIN fs0 => ~Present(fs0[d].content)
    /\ pc = "error" =>
          \/ fs[failed.src].kind = "dir"
          \/ fs[failed.dst].kind = "dir"

\* C2's case: two files of one subdirectory were renamed to the same canonical
\* name, the second replacing the first, and the run completed.
C2_Witness ==
    /\ pc = "done"
    /\ \E d \in DOMAIN fs :
        /\ Cardinality(MoversTo(d)) >= 2
        /\ \A k \in MoversTo(d) : fs0[moved[k].src].kind = "file"
        /\ fs[d].kind = "file"

\* C3: no non-directory entry of the top level, and no file of a subdirectory
\* whose name matches no pattern, is renamed, replaced or removed: it keeps its
\* path and its content, and no rename names it as source or destination.
C3_Frame ==
    \A p \in DOMAIN fs0 :
        (/\ fs0[p].kind = "file"
         /\ Len(p) = 1 \/ ~Matching(p[Len(p)])) =>
            /\ p \in DOMAIN fs
            /\ fs[p] = fs0[p]
            /\ \A k \in DOMAIN moved : moved[k].src # p /\ moved[k].dst # p

\* C3's case: a run that renamed something has completed beside a top-level
\* file named metal_albedo and a subdirectory file matching nothing.
C3_Witness ==
    /\ pc = "done"
    /\ run = 1
    /\ moved # <<>>
    /\ << <<"metal", "albedo">> >> \in DOMAIN fs
    /\ fs[<< <<"metal", "albedo">> >>].kind = "file"
    /\ \E k \in DOMAIN moved :
          /\ moved[k].src # moved[k].dst
          /\ <<moved[k].src[1], <<"wood", ".jpg">> >> \in DOMAIN fs
          /\ fs[<<moved[k].src[1], <<"wood", ".jpg">> >>].kind = "file"

\* C9: only files are renamed: no entry of a subdirectory that is itself a
\* directory is moved to D/<canonical>.png by a rename.
C9_OnlyFilesRenamed ==
    \A k \in DOMAIN moved :
        (moved[k].src \in DOMAIN fs0 /\ moved[k].src # moved[k].dst) =>
            fs0[moved[k].src].kind = "file"

\* C10: a second run changes nothing: from its start to its end the tree is the
\* one the first run left, and it does not fail.
C10_Idempotent ==
    run >= 2 => (fs = fs0 /\ pc # "error")

\* C10's case: the second run has completed, has met canonical files, and the
\* first run had moved an entry away from the path it started at.
C10_Witness ==
    /\ run = 2
    /\ pc = "done"
    /\ moved # <<>>
    /\ \E p \in DOMAIN fs : fs[p].content # p

(***************************************************************************)
(*                     PROPERTIES OF THE BUILD STAGER                      *)
(***************************************************************************)

\* The paths of the four asset trees in the working directory.
SourcePaths == UNION { Tree(disk, dirs[k]) : k \in 1..Len(dirs) }

\* The paths of the staging directory on disk.
Staged == Tree(disk, staging_dir)

\* What the staged copy of source path p must hold.
SameAsSource(q) ==
    /\ Tail(q) \in SourcePaths
    /\ q \in DOMAIN disk
    /\ disk[q] = disk[Tail(q)]

\* The asset directories the loop had copied when the run stopped copying.
CopiedCount == IF failedAt = "copytree" THEN di - 1 ELSE Len(dirs)

\* The number of times step occurs among the completed steps.
Count(step) == Cardinality({ i \in DOMAIN steps : steps[i] = step })

\* C4: a failing build ends the run at that step: only the removal of the old
\* staging directory has been executed, the archive is as it was before the
\* run, and no staging directory is on disk.
C4_BuildFailure ==
    failedAt = "build" =>
        /\ spc = "aborted"
        /\ steps = <<"rmtree">>
        /\ archive = archive0
        /\ Staged = {}

\* C4's case: the build has failed in a run that found a staging directory.
C4_Witness ==
    /\ failedAt = "build"
    /\ spc = "aborted"
    /\ <<staging_dir, "old">> \in DOMAIN disk0

\* C5 as stated: the archive of a completed run holds exactly the four asset
\* trees and the executable, named relative to the staging root.
C5_Original ==
    spc = "done" =>
        /\ archive.state = "complete"
        /\ DOMAIN archive.entries = SourcePaths \cup {<<ExeName>>}

\* C5, amended: the archive of a completed run holds exactly the staging
\* directory itself, the four asset trees and the executable, each entry named
\* by its path from the working directory ("dist", "dist/materials/a",
\* "dist/hot_chickens.exe") and holding what the source holds; nothing of a
\* staging directory found before the run is in it.
C5_ArchiveContents ==
    spc = "done" =>
        /\ archive.state = "complete"
        /\ DOMAIN archive.entries =
              {<<staging_dir>>, <<staging_dir, ExeName>>} \cup { Into(p) : p \in SourcePaths }
        /\ archive.entries[<<staging_dir>>] = DirMark
        /\ archive.entries[<<staging_dir, ExeName>>] = disk[ExePath]
        /\ \A p \in SourcePaths : archive.entries[Into(p)] = disk[p]

\* C5's case: a run that found an old staging directory has completed with an
\* asset file in the archive.
C5_Witness ==
    /\ spc = "done"
    /\ <<staging_dir, "old">> \in DOMAIN disk0
    /\ <<staging_dir, "materials", "a">> \in DOMAIN archive.entries

\* C6: at the end of every completed run, the first and the second, no staging
\* directory is on disk and every entry of the archive comes from what this run
\* staged: nothing of the archive the run found is kept.
C6_RepeatedRuns ==
    spc = "done" =>
        /\ Staged = {}
        /\ archive.state = "complete"
        /\ \A n \in DOMAIN archive.entries :
              \/ n = <<staging_dir>>
              \/ n = <<staging_dir, ExeName>> /\ archive.entries[n] = disk[ExePath]
              \/ Tail(n) \in SourcePaths /\ archive.entries[n] = disk[Tail(n)]

\* C6's case: the second run has completed and has replaced the archive the
\* first run wrote by a different one.
C6_Witness ==
    /\ srun = 2
    /\ spc = "done"
    /\ archive0.state = "complete"
    /\ <<staging_dir, "old">> \notin DOMAIN archive0.entries
    /\ archive # archive0

\* C7 as stated: a run that started with no archive on disk ends with a
\* complete archive and no staging directory, or with no archive.
C7_Original ==
    (spc \in {"done", "aborted"} /\ archive0.state = "absent") =>
        \/ archive.state = "complete" /\ Staged = {}
        \/ archive.state = "absent"

\* C7, amended: a run that completes ends with a complete archive and no
\* staging directory; a run aborted before the archive step leaves the archive
\* as it was before the run (none if there was none), with a staging directory
\* on disk when the abort came after its creation; a run aborted in the archive
\* step or in the final removal leaves the staging directory on disk beside an
\* archive that is complete only in the second case.
C7_TerminalStates ==
    /\ spc = "done" => (archive.state = "complete" /\ Staged = {})
    /\ (spc = "aborted" /\ failedAt \in {"rmtree", "build", "mkdir", "copytree", "copy"}) =>
          archive = archive0
    /\ (spc = "aborted" /\ failedAt \in {"copytree", "copy", "archive", "cleanup"}) =>
          StagingExists(disk)
    /\ (spc = "aborted" /\ failedAt = "archive") => archive \in {archive0, PartialArchive}
    /\ (spc = "aborted" /\ failedAt = "cleanup") => archive.state = "complete"
    /\ (spc = "aborted") = (failedAt # "none")

\* C7's case: the archive step has failed in a run that started with no
\* archive: an incomplete archive lies beside the staging directory.
C7_Witness ==
    /\ spc = "aborted"
    /\ failedAt = "archive"
    /\ archive0.state = "absent"
    /\ archive.state = "partial"
    /\ StagingExists(disk)

\* C8 as stated: after a failed copy the staging directory holds exactly the
\* directories copied before the failure.
C8_Original ==
    failedAt \in {"copytree", "copy"} =>
        Staged = {<<staging_dir>>}
                 \cup UNION { { Into(p) : p \in Tree(disk, dirs[k]) } : k \in 1..CopiedCount }

\* C8, amended: a failing copy ends the run at that step: no later copy, no
\* archive write and no removal is executed, the archive is as it was before
\* the run, and the staging directory stays on disk holding the directories
\* copied before the failure in full and, beyond them, only what the failing
\* copy had written of its own source before it raised.
C8_CopyFailure ==
    failedAt \in {"copytree", "copy"} =>
        /\ spc = "aborted"
        /\ archive = archive0
        /\ Count("copytree") = CopiedCount
        /\ Count("copy") = 0 /\ Count("archive") = 0 /\ Count("cleanup") = 0
        /\ StagingExists(disk)
        /\ \A k \in 1..CopiedCount : \A p \in Tree(disk, dirs[k]) : SameAsSource(Into(p))
        /\ \A q \in Staged :
              \/ q = <<staging_dir>>
              \/ \E k \in 1..CopiedCount : Tail(q) \in Tree(disk, dirs[k])
              \/ /\ failedAt = "copytree"
                 /\ Tail(q) \in Tree(disk, dirs[di])
                 /\ disk[q] \in {disk[Tail(q)], Truncated}
              \/ /\ failedAt = "copy"
                 /\ q = <<staging_dir, ExeName>>
                 /\ disk[q] = Truncated

\* C8's case: the copy of the third asset directory has failed after the first
\* two were copied.
C8_Witness ==
    /\ failedAt = "copytree"
    /\ di = 3
    /\ spc = "aborted"
    /\ SameAsSource(<<staging_dir, dirs[1], "a">>)
    /\ SameAsSource(<<staging_dir, dirs[2]>>)

====
